---- MODULE Spec2Model ----
(***************************************************************************)
(* A model of src/interpreter.py: the lexer (tokenize), the recursive      *)
(* descent parser (class Parser) and the tree-walking evaluator (class     *)
(* Interpreter), run one after another as the main block does.             *)
(*                                                                         *)
(* Source text and lexemes are TLA+ strings (TLC treats them as sequences  *)
(* of characters: Len, Head, Tail, SubSeq and \o apply).  A token is the   *)
(* pair <<kind, lexeme>>, Python's None is the empty tuple, an AST node is *)
(* the tuple the parser builds, e.g. <<"binary_op", "PLUS", l, r>>.        *)
(* A runtime value carries its Python type: <<"int", n>>, <<"str", s>>,    *)
(* <<"bool", b>>, <<"float", n, d>> (the quotient n/d in lowest terms).    *)
(***************************************************************************)
EXTENDS Integers, Sequences, FiniteSets, TLC

VARIABLES code, tokens, pos, ast, variables, output, stack, iterations, pc, err

vars == <<code, tokens, pos, ast, variables, output, stack, iterations, pc, err>>

None == <<>>

\* Runs are cut after this many loop iterations.
MaxIterations == 4

NoError == [kind |-> "", at |-> "", info |-> None]

Raise(kind, at, info) == [kind |-> kind, at |-> at, info |-> info]

(***************************************************************************)
(* Lexer                                                                   *)
(***************************************************************************)

Digits == {"0", "1", "2", "3", "4", "5", "6", "7", "8", "9"}

IdentStart ==
    {"a", "b", "c", "d", "e", "f", "g", "h", "i", "j", "k", "l", "m",
     "n", "o", "p", "q", "r", "s", "t", "u", "v", "w", "x", "y", "z",
     "A", "B", "C", "D", "E", "F", "G", "H", "I", "J", "K", "L", "M",
     "N", "O", "P", "Q", "R", "S", "T", "U", "V", "W", "X", "Y", "Z", "_"}

IdentChars == IdentStart \cup Digits

Blank == {" ", "\t"}

\* The rules with IDENTIFIER ahead of the keywords.
TOKEN_TYPES_identifier_first ==
    << "IDENTIFIER", "WHILE", "PRINT", "INPUT", "NUMBER", "STRING", "ASSIGN",
       "PLUS", "MINUS", "MULTIPLY", "DIVIDE", "LPAREN", "RPAREN", "LBRACE",
       "RBRACE", "LESS", "GREATER", "SEMICOLON", "WHITESPACE", "NEWLINE" >>

\* The rules of TOKEN_TYPES in the dictionary's (insertion) order.
TOKEN_TYPES ==
    << "WHILE", "PRINT", "INPUT", "NUMBER", "STRING", "IDENTIFIER", "ASSIGN",
       "PLUS", "MINUS", "MULTIPLY", "DIVIDE", "LPAREN", "RPAREN", "LBRACE",
       "RBRACE", "LESS", "GREATER", "SEMICOLON", "WHITESPACE", "NEWLINE" >>

CharAt(s, i) == SubSeq(s, i, i)

\* Length of the longest prefix of s whose characters are all in class.
RECURSIVE RunLen(_, _)
RunLen(s, class) ==
    IF s = "" \/ Head(s) \notin class THEN 0 ELSE 1 + RunLen(Tail(s), class)

\* A literal pattern matches when s starts with it.
LiteralLen(s, lit) ==
    IF Len(s) >= Len(lit) /\ SubSeq(s, 1, Len(lit)) = lit THEN Len(lit) ELSE 0

\* r'\".*?\"' from position j on: the first closing quote, with no newline
\* before it ('.' does not match a newline); 0 when there is none.
RECURSIVE StringEnd(_, _)
StringEnd(s, j) ==
    IF j > Len(s) THEN 0
    ELSE IF CharAt(s, j) = "\"" THEN j
    ELSE IF CharAt(s, j) = "\n" THEN 0
    ELSE StringEnd(s, j + 1)

\* Length of pattern.match(code) for the rule token_type, 0 for no match
\* (no pattern of TOKEN_TYPES matches the empty string).
MatchLen(token_type, s) ==
    CASE token_type = "WHILE" -> LiteralLen(s, "while")
      [] token_type = "PRINT" -> LiteralLen(s, "print")
      [] token_type = "INPUT" -> LiteralLen(s, "input")
      [] token_type = "NUMBER" -> RunLen(s, Digits)
      [] token_type = "STRING" ->
            IF s # "" /\ Head(s) = "\"" THEN StringEnd(s, 2) ELSE 0
      [] token_type = "IDENTIFIER" ->
            IF s # "" /\ Head(s) \in IdentStart
            THEN 1 + RunLen(Tail(s), IdentChars) ELSE 0
      [] token_type = "ASSIGN" -> LiteralLen(s, "=")
      [] token_type = "PLUS" -> LiteralLen(s, "+")
      [] token_type = "MINUS" -> LiteralLen(s, "-")
      [] token_type = "MULTIPLY" -> LiteralLen(s, "*")
      [] token_type = "DIVIDE" -> LiteralLen(s, "/")
      [] token_type = "LPAREN" -> LiteralLen(s, "(")
      [] token_type = "RPAREN" -> LiteralLen(s, ")")
      [] token_type = "LBRACE" -> LiteralLen(s, "{")
      [] token_type = "RBRACE" -> LiteralLen(s, "}")
      [] token_type = "LESS" -> LiteralLen(s, "<")
      [] token_type = "GREATER" -> LiteralLen(s, ">")
      [] token_type = "SEMICOLON" -> LiteralLen(s, ";")
      [] token_type = "WHITESPACE" -> RunLen(s, Blank)
      [] token_type = "NEWLINE" -> LiteralLen(s, "\n")

\* The for loop of tokenize: the index of the first rule, from k on, that
\* matches s; 0 when none does.
RECURSIVE FirstMatchFrom(_, _)
FirstMatchFrom(s, k) ==
    IF k > Len(TOKEN_TYPES) THEN 0
    ELSE IF MatchLen(TOKEN_TYPES[k], s) > 0 THEN k
    ELSE FirstMatchFrom(s, k + 1)

FirstMatch(s) == FirstMatchFrom(s, 1)

\* Whether a matched rule's token is kept (line 37).
Kept(token_type) == token_type \notin {"WHITESPACE", "NEWLINE"}

\* The loop has ended: nothing is left to read, or an exception was raised.
Ended(st) == st.s = "" \/ st.err.kind # ""

\* One iteration of the while loop of tokenize, on the text st.s still to
\* read and the tokens st.tokens appended so far.  The loop has ended when
\* the text is empty or an exception was raised.
tokenize_step(st) ==
    IF Ended(st) THEN st
    ELSE LET k == FirstMatch(st.s) IN
         IF k = 0
         THEN [st EXCEPT !.err = Raise("SyntaxError", "tokenize", <<Head(st.s)>>)]
         ELSE LET token_type == TOKEN_TYPES[k]
                  value == SubSeq(st.s, 1, MatchLen(token_type, st.s))
              IN [s |-> SubSeq(st.s, Len(value) + 1, Len(st.s)),
                  tokens |-> IF Kept(token_type)
                             THEN Append(st.tokens, <<token_type, value>>)
                             ELSE st.tokens,
                  err |-> st.err]

\* n iterations of the loop: the first half and, unless the loop has ended
\* by then, the rest.
RECURSIVE tokenize_iterate(_, _)
tokenize_iterate(st, n) ==
    IF n = 0 THEN st
    ELSE IF n = 1 THEN tokenize_step(st)
    ELSE LET half == tokenize_iterate(st, n \div 2) IN
         IF Ended(half) THEN half ELSE tokenize_iterate(half, n - (n \div 2))

\* tokenize(code): every iteration consumes at least one character, so the
\* loop has ended after Len(s) iterations.  No token list is returned when
\* it raises.
tokenize(s) ==
    LET end == tokenize_iterate([s |-> s, tokens |-> <<>>, err |-> NoError], Len(s))
    IN [err |-> end.err, tokens |-> IF end.err.kind # "" THEN <<>> ELSE end.tokens]

(***************************************************************************)
(* Parser.  Every method takes the token list and the cursor (self.pos,    *)
(* counted from 0) and yields [err, node, pos]: the exception raised if    *)
(* any, the value returned, and the cursor it leaves.                      *)
(***************************************************************************)

Ok(node, p) == [err |-> NoError, node |-> node, pos |-> p]

Fail(kind, info, p) == [err |-> Raise(kind, "parse", info), node |-> None, pos |-> p]

Failed(r) == r.err.kind # ""

\* A call whose exception, if it raises, leaves the calling method too;
\* otherwise the method goes on with the call's result.
Then(r, Continue(_)) == IF Failed(r) THEN r ELSE Continue(r)

peek(toks, p) == IF p < Len(toks) THEN toks[p + 1] ELSE None

\* advance returns the token under the cursor and moves the cursor by one.
advance(toks, p) == Ok(peek(toks, p), p + 1)

expect(toks, p, expected_type) ==
    LET token == peek(toks, p) IN
    IF token # None /\ token[1] = expected_type
    THEN advance(toks, p)
    ELSE Fail("SyntaxError", <<"Expected", expected_type, token>>, p)

DigitVal(c) ==
    CASE c = "0" -> 0 [] c = "1" -> 1 [] c = "2" -> 2 [] c = "3" -> 3
      [] c = "4" -> 4 [] c = "5" -> 5 [] c = "6" -> 6 [] c = "7" -> 7
      [] c = "8" -> 8 [] c = "9" -> 9

\* int(s) for a string of decimal digits.
RECURSIVE StrToIntFrom(_, _)
StrToIntFrom(s, acc) ==
    IF s = "" THEN acc ELSE StrToIntFrom(Tail(s), 10 * acc + DigitVal(Head(s)))

StrToInt(s) == StrToIntFrom(s, 0)

parse_number(toks, p) ==
    Then(expect(toks, p, "NUMBER"),
         LAMBDA token : Ok(<<"number", StrToInt(token.node[2])>>, token.pos))

\* token[1][1:-1]: the lexeme without its first and last character.
parse_string(toks, p) ==
    Then(expect(toks, p, "STRING"),
         LAMBDA token : Ok(<<"string", SubSeq(token.node[2], 2, Len(token.node[2]) - 1)>>,
                           token.pos))

parse_identifier(toks, p) ==
    Then(expect(toks, p, "IDENTIFIER"),
         LAMBDA token : Ok(<<"identifier", token.node[2]>>, token.pos))

RECURSIVE parse_expression(_, _)
RECURSIVE parse_expression_loop(_, _, _)
RECURSIVE parse_term(_, _)
RECURSIVE parse_term_loop(_, _, _)
RECURSIVE parse_factor(_, _)

parse_expression(toks, p) ==
    Then(parse_term(toks, p),
         LAMBDA left : parse_expression_loop(toks, left.node, left.pos))

\* The loop with a factor, not a term, as the right operand.
RECURSIVE parse_expression_loop_flat(_, _, _)
parse_expression_loop_flat(toks, left, p) ==
    IF peek(toks, p) # None /\ peek(toks, p)[1] \in {"PLUS", "MINUS"}
    THEN Then(parse_factor(toks, p + 1),
              LAMBDA right : parse_expression_loop_flat(
                  toks, <<"binary_op", peek(toks, p)[1], left, right.node>>, right.pos))
    ELSE Ok(left, p)

\* The while loop of parse_expression, with the tree built so far.
parse_expression_loop(toks, left, p) ==
    IF peek(toks, p) # None /\ peek(toks, p)[1] \in {"PLUS", "MINUS"}
    THEN Then(parse_term(toks, p + 1),
              LAMBDA right : parse_expression_loop(
                  toks, <<"binary_op", peek(toks, p)[1], left, right.node>>, right.pos))
    ELSE Ok(left, p)

parse_term(toks, p) ==
    Then(parse_factor(toks, p),
         LAMBDA left : parse_term_loop(toks, left.node, left.pos))

\* The while loop of parse_term, with the tree built so far.
parse_term_loop(toks, left, p) ==
    IF peek(toks, p) # None /\ peek(toks, p)[1] \in {"MULTIPLY", "DIVIDE"}
    THEN Then(parse_factor(toks, p + 1),
              LAMBDA right : parse_term_loop(
                  toks, <<"binary_op", peek(toks, p)[1], left, right.node>>, right.pos))
    ELSE Ok(left, p)

\* self.peek()[0] is evaluated without a None test: at the end of the
\* tokens it raises TypeError ('NoneType' object is not subscriptable).
parse_factor(toks, p) ==
    IF peek(toks, p) = None THEN Fail("TypeError", <<"NoneType">>, p)
    ELSE IF peek(toks, p)[1] = "NUMBER" THEN parse_number(toks, p)
    ELSE IF peek(toks, p)[1] = "IDENTIFIER" THEN parse_identifier(toks, p)
    ELSE IF peek(toks, p)[1] = "LPAREN"
    THEN Then(parse_expression(toks, p + 1),
              LAMBDA expr : Then(expect(toks, expr.pos, "RPAREN"),
                                 LAMBDA close : Ok(expr.node, close.pos)))
    ELSE Fail("SyntaxError", <<"Unexpected token", peek(toks, p)>>, p)

parse_comparison(toks, p) ==
    Then(parse_expression(toks, p),
         LAMBDA left :
            IF peek(toks, left.pos) # None
               /\ peek(toks, left.pos)[1] \in {"GREATER", "LESS"}
            THEN Then(parse_expression(toks, left.pos + 1),
                      LAMBDA right : Ok(<<"binary_op", peek(toks, left.pos)[1],
                                          left.node, right.node>>, right.pos))
            ELSE left)

parse_assignment(toks, p) ==
    Then(parse_identifier(toks, p),
         LAMBDA var_name :
            Then(expect(toks, var_name.pos, "ASSIGN"),
                 LAMBDA eq :
                    Then(parse_expression(toks, eq.pos),
                         LAMBDA expr : Ok(<<"assign", var_name.node, expr.node>>,
                                          expr.pos))))

parse_print(toks, p) ==
    Then(expect(toks, p, "PRINT"),
         LAMBDA kw : Then(parse_expression(toks, kw.pos),
                          LAMBDA expr : Ok(<<"print", expr.node>>, expr.pos)))

parse_input(toks, p) ==
    Then(expect(toks, p, "INPUT"),
         LAMBDA kw : Then(parse_identifier(toks, kw.pos),
                          LAMBDA var_name : Ok(<<"input", var_name.node>>, var_name.pos)))

RECURSIVE parse_while(_, _)
RECURSIVE parse_statement(_, _)
RECURSIVE parse_statements_loop(_, _, _)

parse_statements(toks, p) == parse_statements_loop(toks, <<>>, p)

parse_while(toks, p) ==
    Then(expect(toks, p, "WHILE"),
         LAMBDA kw :
            Then(parse_comparison(toks, kw.pos),
                 LAMBDA condition :
                    Then(expect(toks, condition.pos, "LBRACE"),
                         LAMBDA open :
                            Then(parse_statements(toks, open.pos),
                                 LAMBDA body :
                                    Then(expect(toks, body.pos, "RBRACE"),
                                         LAMBDA close :
                                            Ok(<<"while", condition.node, body.node>>,
                                               close.pos))))))

\* token[0] is evaluated without a None test, as in parse_factor; the one
\* caller, parse_statements, tests for None first.
parse_statement(toks, p) ==
    IF peek(toks, p) = None THEN Fail("TypeError", <<"NoneType">>, p)
    ELSE IF peek(toks, p)[1] = "IDENTIFIER" THEN parse_assignment(toks, p)
    ELSE IF peek(toks, p)[1] = "PRINT" THEN parse_print(toks, p)
    ELSE IF peek(toks, p)[1] = "INPUT" THEN parse_input(toks, p)
    ELSE IF peek(toks, p)[1] = "WHILE" THEN parse_while(toks, p)
    ELSE Fail("SyntaxError", <<"Invalid statement", peek(toks, p)>>, p)

\* The optional SEMICOLON after a statement (lines 157-158): the cursor
\* after it, when it is there.
skip_semicolon(toks, p) ==
    IF peek(toks, p) # None /\ peek(toks, p)[1] = "SEMICOLON" THEN p + 1 ELSE p

\* The loop with the SEMICOLON after a statement required.
RECURSIVE parse_statements_loop_strict(_, _, _)
parse_statements_loop_strict(toks, statements, p) ==
    IF peek(toks, p) # None /\ peek(toks, p)[1] # "RBRACE"
    THEN Then(parse_statement(toks, p),
              LAMBDA statement :
                 Then(expect(toks, statement.pos, "SEMICOLON"),
                      LAMBDA semi :
                         parse_statements_loop_strict(
                             toks, Append(statements, statement.node), semi.pos)))
    ELSE Ok(statements, p)

\* The while loop of parse_statements, with the statements read so far.
parse_statements_loop(toks, statements, p) ==
    IF peek(toks, p) # None /\ peek(toks, p)[1] # "RBRACE"
    THEN Then(parse_statement(toks, p),
              LAMBDA statement :
                 parse_statements_loop(toks, Append(statements, statement.node),
                                       skip_semicolon(toks, statement.pos)))
    ELSE Ok(statements, p)

parse(toks) == parse_statements(toks, 0)

(***************************************************************************)
(* Runtime values and Python's operators on them                           *)
(***************************************************************************)

IntV(n) == <<"int", n>>

StrV(s) == <<"str", s>>

BoolV(b) == <<"bool", b>>

Abs(n) == IF n < 0 THEN -n ELSE n

RECURSIVE Gcd(_, _)
Gcd(a, b) == IF b = 0 THEN a ELSE Gcd(b, a % b)

\* The float n/d, in lowest terms with a positive denominator.  Exact as
\* long as the quotient is a binary fraction a double represents.
FloatV(n, d) ==
    LET g == Gcd(Abs(n), Abs(d))
        sgn == IF d < 0 THEN -1 ELSE 1
    IN <<"float", sgn * (n \div g), sgn * (d \div g)>>

IsNum(v) == v[1] \in {"int", "bool", "float"}

IsIntegral(v) == v[1] \in {"int", "bool"}

\* bool is a subclass of int: True is 1 and False is 0.
Numer(v) ==
    CASE v[1] = "int" -> v[2]
      [] v[1] = "bool" -> (IF v[2] THEN 1 ELSE 0)
      [] v[1] = "float" -> v[2]

Denom(v) == IF v[1] = "float" THEN v[3] ELSE 1

\* The printable ASCII characters of code points 32 to 95 and 97 to 126.
AsciiLow ==
    " !\"#$%&'()*+,-./0123456789:;<=>?@ABCDEFGHIJKLMNOPQRSTUVWXYZ[\\]^_"

AsciiHigh == "abcdefghijklmnopqrstuvwxyz{|}~"

IndexIn(s, c) == CHOOSE i \in 1..Len(s) : CharAt(s, i) = c

\* ord(c)
Ord(c) ==
    IF c = "\t" THEN 9
    ELSE IF \E i \in 1..Len(AsciiLow) : CharAt(AsciiLow, i) = c
    THEN 31 + IndexIn(AsciiLow, c)
    ELSE 96 + IndexIn(AsciiHigh, c)

\* a < b on str: lexicographic by code point.
RECURSIVE StrLess(_, _)
StrLess(a, b) ==
    IF b = "" THEN FALSE
    ELSE IF a = "" THEN TRUE
    ELSE IF Head(a) = Head(b) THEN StrLess(Tail(a), Tail(b))
    ELSE Ord(Head(a)) < Ord(Head(b))

\* s * n on str: n copies of s, none for n <= 0.
RECURSIVE Repeat(_, _)
Repeat(s, n) == IF n <= 0 THEN "" ELSE s \o Repeat(s, n - 1)

Value(v) == [err |-> NoError, val |-> v]

Throw(kind, info) == [err |-> Raise(kind, "exec", info), val |-> None]

\* Lines 185-198: the operator applied to the two operand values.
apply_operator(operator, l, r) ==
    CASE operator = "PLUS" ->
            IF IsNum(l) /\ IsNum(r)
            THEN IF IsIntegral(l) /\ IsIntegral(r)
                 THEN Value(IntV(Numer(l) + Numer(r)))
                 ELSE Value(FloatV(Numer(l) * Denom(r) + Numer(r) * Denom(l),
                                   Denom(l) * Denom(r)))
            ELSE IF l[1] = "str" /\ r[1] = "str" THEN Value(StrV(l[2] \o r[2]))
            ELSE Throw("TypeError", <<"+", l[1], r[1]>>)
      [] operator = "MINUS" ->
            IF IsNum(l) /\ IsNum(r)
            THEN IF IsIntegral(l) /\ IsIntegral(r)
                 THEN Value(IntV(Numer(l) - Numer(r)))
                 ELSE Value(FloatV(Numer(l) * Denom(r) - Numer(r) * Denom(l),
                                   Denom(l) * Denom(r)))
            ELSE Throw("TypeError", <<"-", l[1], r[1]>>)
      [] operator = "MULTIPLY" ->
            IF IsNum(l) /\ IsNum(r)
            THEN IF IsIntegral(l) /\ IsIntegral(r)
                 THEN Value(IntV(Numer(l) * Numer(r)))
                 ELSE Value(FloatV(Numer(l) * Numer(r), Denom(l) * Denom(r)))
            ELSE IF l[1] = "str" /\ IsIntegral(r) THEN Value(StrV(Repeat(l[2], Numer(r))))
            ELSE IF IsIntegral(l) /\ r[1] = "str" THEN Value(StrV(Repeat(r[2], Numer(l))))
            ELSE Throw("TypeError", <<"*", l[1], r[1]>>)
      [] operator = "DIVIDE" ->
            IF IsNum(l) /\ IsNum(r)
            THEN IF Numer(r) = 0 THEN Throw("ZeroDivisionError", <<"/">>)
                 ELSE Value(FloatV(Numer(l) * Denom(r), Denom(l) * Numer(r)))
            ELSE Throw("TypeError", <<"/", l[1], r[1]>>)
      [] operator = "GREATER" ->
            IF IsNum(l) /\ IsNum(r)
            THEN Value(BoolV(Numer(l) * Denom(r) > Numer(r) * Denom(l)))
            ELSE IF l[1] = "str" /\ r[1] = "str" THEN Value(BoolV(StrLess(r[2], l[2])))
            ELSE Throw("TypeError", <<">", l[1], r[1]>>)
      [] operator = "LESS" ->
            IF IsNum(l) /\ IsNum(r)
            THEN Value(BoolV(Numer(l) * Denom(r) < Numer(r) * Denom(l)))
            ELSE IF l[1] = "str" /\ r[1] = "str" THEN Value(BoolV(StrLess(l[2], r[2])))
            ELSE Throw("TypeError", <<"<", l[1], r[1]>>)
      [] OTHER -> Throw("ValueError", <<"Unknown operator", operator>>)

\* The evaluation with 0 for an identifier that is not in the table.
RECURSIVE eval_expression_default(_, _)
eval_expression_default(expr, env) ==
    CASE expr[1] = "number" -> Value(IntV(expr[2]))
      [] expr[1] = "string" -> Value(StrV(expr[2]))
      [] expr[1] = "identifier" ->
            IF expr[2] \in DOMAIN env THEN Value(env[expr[2]]) ELSE Value(IntV(0))
      [] expr[1] = "binary_op" ->
            LET left_val == eval_expression_default(expr[3], env) IN
            IF left_val.err.kind # "" THEN left_val
            ELSE LET right_val == eval_expression_default(expr[4], env) IN
                 IF right_val.err.kind # "" THEN right_val
                 ELSE apply_operator(expr[2], left_val.val, right_val.val)
      [] OTHER -> Throw("ValueError", <<"Unknown expression">>)

\* Interpreter.eval_expression against the variable table env.
RECURSIVE eval_expression(_, _)
eval_expression(expr, env) ==
    CASE expr[1] = "number" -> Value(IntV(expr[2]))
      [] expr[1] = "string" -> Value(StrV(expr[2]))
      [] expr[1] = "identifier" ->
            IF expr[2] \in DOMAIN env THEN Value(env[expr[2]])
            ELSE Throw("NameError", <<"Undefined variable", expr[2]>>)
      [] expr[1] = "binary_op" ->
            LET left_val == eval_expression(expr[3], env) IN
            IF left_val.err.kind # "" THEN left_val
            ELSE LET right_val == eval_expression(expr[4], env) IN
                 IF right_val.err.kind # "" THEN right_val
                 ELSE apply_operator(expr[2], left_val.val, right_val.val)
      [] OTHER -> Throw("ValueError", <<"Unknown expression">>)

\* A truth test in which only numbers and booleans can be true.
Truthy_numeric(v) ==
    CASE v[1] = "int" -> v[2] # 0
      [] v[1] = "bool" -> v[2]
      [] v[1] = "str" -> FALSE
      [] v[1] = "float" -> v[2] # 0

\* bool(v), as the while statement of line 215 tests its condition.
Truthy(v) ==
    CASE v[1] = "int" -> v[2] # 0
      [] v[1] = "bool" -> v[2]
      [] v[1] = "str" -> v[2] # ""
      [] v[1] = "float" -> v[2] # 0

DigitChar(d) == CharAt("0123456789", d + 1)

\* str(n) for a natural number n.
RECURSIVE NatToStr(_)
NatToStr(n) == IF n < 10 THEN DigitChar(n) ELSE NatToStr(n \div 10) \o DigitChar(n % 10)

IntToStr(n) == IF n < 0 THEN "-" \o NatToStr(-n) ELSE NatToStr(n)

\* The decimal digits of r/d after the point, r < d, for a quotient whose
\* decimal expansion ends.
RECURSIVE FracDigits(_, _)
FracDigits(r, d) ==
    IF r = 0 THEN "" ELSE DigitChar((10 * r) \div d) \o FracDigits((10 * r) % d, d)

FloatToStr(n, d) ==
    LET a == Abs(n)
        frac == FracDigits(a % d, d)
    IN (IF n < 0 THEN "-" ELSE "") \o NatToStr(a \div d) \o "."
       \o (IF frac = "" THEN "0" ELSE frac)

\* str(v), the text print writes.
ToStr(v) ==
    CASE v[1] = "int" -> IntToStr(v[2])
      [] v[1] = "str" -> v[2]
      [] v[1] = "bool" -> (IF v[2] THEN "True" ELSE "False")
      [] v[1] = "float" -> FloatToStr(v[2], v[3])

\* self.variables[name] = v
Store(env, name, v) ==
    [k \in (DOMAIN env) \cup {name} |-> IF k = name THEN v ELSE env[k]]

(***************************************************************************)
(* The run: the main block's three steps, then the evaluator's walk.       *)
(* Interpreter.exec and the body loop of a while statement are both a for  *)
(* loop over a statement list: stack holds one frame <<statements, i>> per *)
(* loop in progress, i the index of the statement to execute next.         *)
(***************************************************************************)

\* What the run has written to standard output: main's two diagnostic
\* lines, the lines of print statements and the prompts of input().
MainLine(label, v) == <<"main", label, v>>

PrintLine(text) == <<"print", text>>

Prompt == <<"prompt", "Input: ">>

\* Lines 231-232: tokenize the text, print the tokens.
Tokenized(r) ==
    IF r.err.kind # ""
    THEN /\ pc' = "error"
         /\ err' = r.err
         /\ UNCHANGED <<tokens, output>>
    ELSE /\ tokens' = r.tokens
         /\ output' = Append(output, MainLine("Tokens:", r.tokens))
         /\ pc' = "parse"
         /\ err' = err

Tokenize ==
    /\ pc = "tokenize"
    /\ Tokenized(tokenize(code))
    /\ UNCHANGED <<code, pos, ast, variables, stack, iterations>>

\* Lines 235-241: parse, print the tree, construct the interpreter and
\* enter Interpreter.exec.
Parsed(r) ==
    /\ pos' = r.pos
    /\ IF Failed(r)
       THEN /\ pc' = "error"
            /\ err' = r.err
            /\ UNCHANGED <<ast, output, stack>>
       ELSE /\ ast' = r.node
            /\ output' = Append(output, MainLine("AST:", r.node))
            /\ stack' = << <<r.node, 1>> >>
            /\ pc' = "exec"
            /\ err' = err

Parse ==
    /\ pc = "parse"
    /\ Parsed(parse(tokens))
    /\ variables' = <<>>
    /\ UNCHANGED <<code, tokens, iterations>>

Top == stack[Len(stack)]

\* The evaluator is about to execute a statement of the given kind.
AtStatement(kind) ==
    /\ pc = "exec"
    /\ stack # <<>>
    /\ Top[2] <= Len(Top[1])
    /\ Top[1][Top[2]][1] = kind

Statement == Top[1][Top[2]]

\* The innermost for loop moves on to its next statement.
NextStatement == [stack EXCEPT ![Len(stack)] = <<Top[1], Top[2] + 1>>]

\* An exception leaves every loop and ends the run.
Abort(e) ==
    /\ pc' = "error"
    /\ err' = e
    /\ stack' = <<>>

\* Lines 203-206
ExecAssign ==
    /\ AtStatement("assign")
    /\ LET var_name == Statement[2][2]
           value == eval_expression(Statement[3], variables)
       IN IF value.err.kind # ""
          THEN Abort(value.err) /\ UNCHANGED variables
          ELSE /\ variables' = Store(variables, var_name, value.val)
               /\ stack' = NextStatement
               /\ UNCHANGED <<pc, err>>
    /\ UNCHANGED <<code, tokens, pos, ast, output, iterations>>

\* Lines 207-209
ExecPrint ==
    /\ AtStatement("print")
    /\ LET value == eval_expression(Statement[2], variables) IN
       IF value.err.kind # ""
       THEN Abort(value.err) /\ UNCHANGED output
       ELSE /\ output' = Append(output, PrintLine(ToStr(value.val)))
            /\ stack' = NextStatement
            /\ UNCHANGED <<pc, err>>
    /\ UNCHANGED <<code, tokens, pos, ast, variables, iterations>>

\* The lines a user may type at the prompt.
InputLines == {"", "a"}

\* Lines 210-212: the prompt is written, the line read is stored as a str.
ExecInput ==
    /\ AtStatement("input")
    /\ \E line \in InputLines :
          variables' = Store(variables, Statement[2][2], StrV(line))
    /\ output' = Append(output, Prompt)
    /\ stack' = NextStatement
    /\ UNCHANGED <<code, tokens, pos, ast, iterations, pc, err>>

\* Lines 213-217: one test of the while condition.  A true condition
\* enters the body's for loop, after which the condition is tested again;
\* a false one ends the statement.
ExecWhile ==
    /\ AtStatement("while")
    /\ LET condition == eval_expression(Statement[2], variables) IN
       IF condition.err.kind # ""
       THEN Abort(condition.err) /\ UNCHANGED iterations
       ELSE IF Truthy(condition.val)
       THEN /\ iterations < MaxIterations
            /\ iterations' = iterations + 1
            /\ stack' = Append(stack, <<Statement[3], 1>>)
            /\ UNCHANGED <<pc, err>>
       ELSE /\ stack' = NextStatement
            /\ UNCHANGED <<pc, err, iterations>>
    /\ UNCHANGED <<code, tokens, pos, ast, variables, output>>

\* A for loop has run out of statements: a while body returns to the test
\* of its condition, Interpreter.exec returns and the run ends.
EndOfBlock ==
    /\ pc = "exec"
    /\ stack # <<>>
    /\ Top[2] > Len(Top[1])
    /\ stack' = SubSeq(stack, 1, Len(stack) - 1)
    /\ pc' = IF Len(stack) = 1 THEN "done" ELSE "exec"
    /\ UNCHANGED <<code, tokens, pos, ast, variables, output, iterations, err>>

(***************************************************************************)
(* Inputs                                                                  *)
(***************************************************************************)

\* Source programs are built from at most MaxSnippets of these pieces:
\* statements that run, statements that fail at run time, and text that
\* does not lex or, after a closing brace that closes nothing, does not parse.
MaxSnippets == 3

Snippets ==
    { "x = 1;", "print x;", "input y; print y",
      "while x < 3 { x = x + 1; print x * 2 }",
      "while y { input y }",
      "x = x + y - z;", "x = 7 / 2 - x", "} x = ;", "@" }

RECURSIVE Concatenations(_, _, _)
Concatenations(pieces, sep, n) ==
    IF n = 0 THEN {""}
    ELSE LET shorter == Concatenations(pieces, sep, n - 1) IN
         shorter \cup { t \o sep \o piece : t \in shorter, piece \in pieces }

\* The loop of the specification's section 8, counting to n.
MaxLoopBound == 3

LoopProgram(n) == "x = 0; while (x < " \o IntToStr(n) \o ") { x = x + 1; }"

\* A string literal assigned and printed.
MaxTextLen == 2

Texts == Concatenations({"h", "i", " "}, "", MaxTextLen)

StringProgram(t) == "s = \"" \o t \o "\";  print s;"

\* The two precedence examples over literals up to MaxLiteral.
MaxLiteral == 4

SumProduct(a, b, c) ==
    "x = " \o IntToStr(a) \o " + " \o IntToStr(b) \o " * " \o IntToStr(c)

ParenSum(a, b, c) ==
    "x = (" \o IntToStr(a) \o " + " \o IntToStr(b) \o ") * " \o IntToStr(c)

Literals == 0..MaxLiteral

Programs ==
    Concatenations(Snippets, " ", MaxSnippets)
    \cup { LoopProgram(n) : n \in 0..MaxLoopBound }
    \cup { StringProgram(t) : t \in Texts }
    \cup { SumProduct(a, b, c) : a \in Literals, b \in Literals, c \in Literals }
    \cup { ParenSum(a, b, c) : a \in Literals, b \in Literals, c \in Literals }

\* Texts for the lexer alone: at most MaxFragments of these, run together.
MaxFragments == 4

Fragments == {"while", "print", "input", "x", "1", "\"", " ", "\n", "=", "@"}

LexInputs == Concatenations(Fragments, "", MaxFragments)

\* Token lists for the parser alone: at most MaxChunks of these.
MaxChunks == 3

Chunks ==
    { <<<<"WHILE", "while">>>>, <<<<"PRINT", "print">>>>, <<<<"NUMBER", "1">>>>,
      <<<<"IDENTIFIER", "x">>>>, <<<<"ASSIGN", "=">>>>, <<<<"PLUS", "+">>>>,
      <<<<"RBRACE", "}">>>>, <<<<"SEMICOLON", ";">>>>,
      << <<"IDENTIFIER", "x">>, <<"ASSIGN", "=">>, <<"NUMBER", "1">> >>,
      << <<"PRINT", "print">>, <<"LPAREN", "(">>, <<"IDENTIFIER", "x">>,
         <<"MINUS", "-">>, <<"NUMBER", "2">>, <<"RPAREN", ")">>,
         <<"MULTIPLY", "*">>, <<"IDENTIFIER", "y">> >>,
      << <<"INPUT", "input">>, <<"IDENTIFIER", "y">> >>,
      << <<"WHILE", "while">>, <<"IDENTIFIER", "x">>, <<"GREATER", ">">>,
         <<"NUMBER", "1">>, <<"LBRACE", "{">> >>,
      << <<"WHILE", "while">>, <<"LPAREN", "(">>, <<"IDENTIFIER", "x">>,
         <<"LESS", "<">>, <<"IDENTIFIER", "y">>, <<"RPAREN", ")">>,
         <<"LBRACE", "{">> >>,
      << <<"IDENTIFIER", "y">>, <<"ASSIGN", "=">>, <<"IDENTIFIER", "x">>,
         <<"DIVIDE", "/">>, <<"NUMBER", "2">>, <<"SEMICOLON", ";">> >> }

RECURSIVE ChunkLists(_)
ChunkLists(n) ==
    IF n = 0 THEN {<<>>}
    ELSE LET shorter == ChunkLists(n - 1) IN
         shorter \cup { t \o chunk : t \in shorter, chunk \in Chunks }

TokenInputs == ChunkLists(MaxChunks)

\* A source text of the token list: its lexemes, one space after each.
RECURSIVE Spell(_)
Spell(toks) == IF toks = <<>> THEN "" ELSE Head(toks)[2] \o " " \o Spell(Tail(toks))

(***************************************************************************)
(* Specifications                                                          *)
(***************************************************************************)

Fresh ==
    /\ tokens = <<>>
    /\ pos = 0
    /\ ast = <<>>
    /\ variables = <<>>
    /\ output = <<>>
    /\ stack = <<>>
    /\ iterations = 0
    /\ err = NoError

\* The whole pipeline on a program.
Init ==
    /\ code \in Programs
    /\ pc = "tokenize"
    /\ Fresh

Next ==
    \/ Tokenize
    \/ Parse
    \/ ExecAssign
    \/ ExecPrint
    \/ ExecInput
    \/ ExecWhile
    \/ EndOfBlock

Spec == Init /\ [][Next]_vars

\* The lexer alone on a text.
InitLex ==
    /\ code \in LexInputs
    /\ pc = "tokenize"
    /\ Fresh

NextLex == Tokenize

SpecLex == InitLex /\ [][NextLex]_vars

\* The parser alone, on a token list the lexer has produced.
InitParse ==
    /\ \E toks \in TokenInputs :
          /\ tokenize(Spell(toks)).tokens = toks
          /\ code = Spell(toks)
          /\ tokens = toks
          /\ output = <<MainLine("Tokens:", toks)>>
    /\ pc = "parse"
    /\ pos = 0
    /\ ast = <<>>
    /\ variables = <<>>
    /\ stack = <<>>
    /\ iterations = 0
    /\ err = NoError

NextParse == Parse

SpecParse == InitParse /\ [][NextParse]_vars

(***************************************************************************)
(* Properties                                                              *)
(***************************************************************************)

Halted == pc \in {"done", "error"}

\* What the evaluator wrote: the print lines and the prompts.
ExecOutput == SelectSeq(output, LAMBDA e : e[1] \in {"print", "prompt"})

\* The texts of the print lines, in order.
PrintedLines ==
    LET lines == SelectSeq(output, LAMBDA e : e[1] = "print")
    IN [i \in 1..Len(lines) |-> lines[i][2]]

Contains(s, piece) ==
    \E i \in 1..(Len(s) - Len(piece) + 1) : SubSeq(s, i, i + Len(piece) - 1) = piece

\* C1: the pipeline on `x = 0; while (x < n) { x = x + 1; }` halts
\* successfully after exactly n executions of the loop body, with x equal
\* to n in the environment.
C1_LoopRunsNTimes ==
    \A n \in 0..MaxLoopBound :
        (code = LoopProgram(n) /\ Halted)
            => /\ pc = "done"
               /\ iterations = n
               /\ variables = [name \in {"x"} |-> IntV(n)]

\* C2: the pipeline on `s = "t";  print s;` halts successfully with exactly
\* one output line, equal to t.
C2_StringLiteralPrinted ==
    \A t \in Texts :
        (code = StringProgram(t) /\ Halted)
            => /\ pc = "done"
               /\ PrintedLines = <<t>>

\* C3: Parser.parse returns the statement list or fails with a syntax
\* error naming the offending token, and with no other kind of failure.
C3_ParseFailsOnlyWithSyntaxError ==
    (pc = "error" /\ err.at = "parse") => err.kind = "SyntaxError"

\* The characters some rule of TOKEN_TYPES can match outside a string.
LexAlphabet ==
    IdentChars \cup Blank
    \cup {"=", "+", "-", "*", "/", "(", ")", "{", "}", "<", ">", ";", "\n", "\""}

\* The text has a character no rule matches, and no quote before it.
HasUnlexableChar(s) ==
    \E i \in 1..Len(s) :
        /\ CharAt(s, i) \notin LexAlphabet
        /\ \A j \in 1..(i - 1) : CharAt(s, j) # "\""

\* C4: lexing, parsing and evaluation run in that order, each to its end:
\* while the run is lexing or parsing, and for good in a run whose source
\* has a lexical or a syntax error, no statement has been executed: the
\* environment is empty and no print line or prompt has been written.
C4_NoExecutionBeforeOrAfterError ==
    ( \/ pc \in {"tokenize", "parse"}
      \/ (pc = "error" /\ err.at \in {"tokenize", "parse"})
      \/ HasUnlexableChar(code)
      \/ Contains(code, "x = ;") )
        => /\ variables = <<>>
           /\ ExecOutput = <<>>
           /\ iterations = 0

\* A token list of an expression tree, an operand that is itself an
\* operation in parentheses.
OperatorLexeme(operator) ==
    CASE operator = "PLUS" -> "+" [] operator = "MINUS" -> "-"
      [] operator = "MULTIPLY" -> "*" [] operator = "DIVIDE" -> "/"
      [] operator = "GREATER" -> ">" [] operator = "LESS" -> "<"

RECURSIVE ExprTokens(_)
ExprTokens(expr) ==
    CASE expr[1] = "number" -> << <<"NUMBER", IntToStr(expr[2])>> >>
      [] expr[1] = "identifier" -> << <<"IDENTIFIER", expr[2]>> >>
      [] expr[1] = "binary_op" ->
            LET Operand(e) == IF e[1] = "binary_op"
                              THEN << <<"LPAREN", "(">> >> \o ExprTokens(e)
                                   \o << <<"RPAREN", ")">> >>
                              ELSE ExprTokens(e)
            IN Operand(expr[3]) \o << <<expr[2], OperatorLexeme(expr[2])>> >>
               \o Operand(expr[4])

\* A token list of a statement list, with a SEMICOLON after each statement
\* (at the top level and in while bodies) when semi holds and none otherwise.
RECURSIVE StatementsTokens(_, _)
StatementsTokens(statements, semi) ==
    IF statements = <<>> THEN <<>>
    ELSE LET st == Head(statements)
             this ==
                CASE st[1] = "assign" ->
                        << <<"IDENTIFIER", st[2][2]>>, <<"ASSIGN", "=">> >>
                        \o ExprTokens(st[3])
                  [] st[1] = "print" -> << <<"PRINT", "print">> >> \o ExprTokens(st[2])
                  [] st[1] = "input" ->
                        << <<"INPUT", "input">>, <<"IDENTIFIER", st[2][2]>> >>
                  [] st[1] = "while" ->
                        << <<"WHILE", "while">> >> \o ExprTokens(st[2])
                        \o << <<"LBRACE", "{">> >> \o StatementsTokens(st[3], semi)
                        \o << <<"RBRACE", "}">> >>
         IN this \o (IF semi THEN << <<"SEMICOLON", ";">> >> ELSE <<>>)
            \o StatementsTokens(Tail(statements), semi)

\* The parser accepts the whole token list and returns the tree.
ParsesTo(toks, tree) ==
    LET r == parse(toks) IN ~Failed(r) /\ r.pos = Len(toks) /\ r.node = tree

\* C5: for every statement list the parser has returned, the token list
\* with a SEMICOLON after each statement and the one with no SEMICOLON are
\* both accepted and give that same tree.
C5_SemicolonsAreCosmetic ==
    pc = "exec"
        => /\ ParsesTo(StatementsTokens(ast, TRUE), ast)
           /\ ParsesTo(StatementsTokens(ast, FALSE), ast)

C5_Witness ==
    /\ pc = "exec"
    /\ Len(ast) = 1
    /\ ast[1][1] = "while"
    /\ Len(ast[1][3]) = 1
    /\ \E i \in 1..Len(tokens) : tokens[i][1] = "SEMICOLON"

Num(n) == <<"number", n>>

\* C6: `x = a + b * c` parses to a + (b * c) and leaves x = a + b * c;
\* `x = (a + b) * c` parses to (a + b) * c and leaves x = (a + b) * c.
C6_Precedence ==
    Halted =>
        \A a \in Literals, b \in Literals, c \in Literals :
            /\ code = SumProduct(a, b, c)
                  => /\ pc = "done"
                     /\ ast = << <<"assign", <<"identifier", "x">>,
                                   <<"binary_op", "PLUS", Num(a),
                                     <<"binary_op", "MULTIPLY", Num(b), Num(c)>> >> >> >>
                     /\ variables = [name \in {"x"} |-> IntV(a + b * c)]
            /\ code = ParenSum(a, b, c)
                  => /\ pc = "done"
                     /\ ast = << <<"assign", <<"identifier", "x">>,
                                   <<"binary_op", "MULTIPLY",
                                     <<"binary_op", "PLUS", Num(a), Num(b)>>, Num(c)>> >> >>
                     /\ variables = [name \in {"x"} |-> IntV((a + b) * c)]

C6_Witness ==
    /\ code = "x = 2 + 3 * 4"
    /\ pc = "done"
    /\ variables = [name \in {"x"} |-> IntV(14)]

\* The expression the statement under execution evaluates, None for input.
Evaluated(statement) ==
    CASE statement[1] = "assign" -> statement[3]
      [] statement[1] \in {"print", "while"} -> statement[2]
      [] OTHER -> None

\* The expression names an identifier that is not in the table.
RECURSIVE RefersToUndefined(_, _)
RefersToUndefined(expr, env) ==
    CASE expr = None -> FALSE
      [] expr[1] = "identifier" -> expr[2] \notin DOMAIN env
      [] expr[1] = "binary_op" ->
            RefersToUndefined(expr[3], env) \/ RefersToUndefined(expr[4], env)
      [] OTHER -> FALSE

\* A literal or an identifier that is in the table.
Operational(expr, env) ==
    \/ expr[1] \in {"number", "string"}
    \/ expr[1] = "identifier" /\ expr[2] \in DOMAIN env

\* Evaluation reaches such an identifier before it applies any operator.
RECURSIVE UndefinedComesFirst(_, _)
UndefinedComesFirst(expr, env) ==
    CASE expr = None -> FALSE
      [] expr[1] = "identifier" -> expr[2] \notin DOMAIN env
      [] expr[1] = "binary_op" ->
            \/ UndefinedComesFirst(expr[3], env)
            \/ Operational(expr[3], env) /\ UndefinedComesFirst(expr[4], env)
      [] OTHER -> FALSE

\* The evaluator is about to execute a statement.
AtAStatement == pc = "exec" /\ stack # <<>> /\ Top[2] <= Len(Top[1])

\* C7 as stated: a statement whose expression refers to an identifier that
\* is not in the environment ends the run with the "undefined variable"
\* error and changes neither the environment nor the output, and after a
\* failure nothing changes any more.
C7_UndefinedVariableIsNameError ==
    [][ /\ (AtAStatement /\ RefersToUndefined(Evaluated(Statement), variables))
            => /\ pc' = "error"
               /\ err'.kind = "NameError"
               /\ variables' = variables
               /\ output' = output
        /\ pc = "error" => UNCHANGED vars ]_vars

\* C7 as amended: a statement whose expression refers to an identifier that
\* is not in the environment ends the run with a runtime error and changes
\* neither the environment nor the output; the error is the "undefined
\* variable" one when evaluation reaches the identifier before it applies
\* an operator (an operator applied earlier may fail first).  After a
\* failure nothing changes any more: no later statement executes.
C7_UndefinedVariableFails ==
    [][ /\ (AtAStatement /\ RefersToUndefined(Evaluated(Statement), variables))
            => /\ pc' = "error"
               /\ err'.at = "exec"
               /\ variables' = variables
               /\ output' = output
        /\ (AtAStatement /\ UndefinedComesFirst(Evaluated(Statement), variables))
            => /\ err'.kind = "NameError"
               /\ err'.info[1] = "Undefined variable"
        /\ pc = "error" => UNCHANGED vars ]_vars

C7_Witness ==
    /\ pc = "error"
    /\ err.kind = "NameError"
    /\ err.info = <<"Undefined variable", "y">>
    /\ variables = [name \in {"x"} |-> IntV(1)]
    /\ PrintedLines = <<"1">>

\* The condition of the while statement under execution evaluates to a str.
ConditionIsStr ==
    /\ AtStatement("while")
    /\ eval_expression(Statement[2], variables).err.kind = ""
    /\ eval_expression(Statement[2], variables).val[1] = "str"

\* C8 as stated: a while statement whose condition evaluates to a string
\* is a runtime error that ends the run.
C8_StrConditionIsAnError ==
    [][ ConditionIsStr => pc' = "error" ]_vars

\* C8 as amended: a while statement whose condition evaluates to a string
\* raises nothing: the body runs when the string is not empty and is
\* skipped when it is empty.
C8_StrConditionIsTruthTested ==
    [][ ConditionIsStr
            => /\ pc' = "exec"
               /\ err' = NoError
               /\ IF eval_expression(Statement[2], variables).val[2] # ""
                  THEN /\ stack' = Append(stack, <<Statement[3], 1>>)
                       /\ iterations' = iterations + 1
                  ELSE /\ stack' = NextStatement
                       /\ iterations' = iterations ]_vars

\* The body of `while y` was entered with y the line "a" read by input.
C8_Witness ==
    /\ pc = "exec"
    /\ Len(stack) = 2
    /\ stack[1][1][stack[1][2]][1] = "while"
    /\ stack[1][1][stack[1][2]][2] = <<"identifier", "y">>
    /\ Top[2] = 1
    /\ "y" \in DOMAIN variables
    /\ variables["y"] = StrV("a")
    /\ iterations = 1

Keywords == {"while", "print", "input"}

\* C9: the tokens tokenize returns hold no WHITESPACE or NEWLINE token and
\* no IDENTIFIER token whose lexeme is a keyword.
C9_NoBlankOrKeywordIdentifier ==
    pc = "parse"
        => \A i \in 1..Len(tokens) :
              /\ tokens[i][1] \notin {"WHITESPACE", "NEWLINE"}
              /\ ~(tokens[i][1] = "IDENTIFIER" /\ tokens[i][2] \in Keywords)

C9_Witness ==
    /\ pc = "parse"
    /\ code = "xwhile while"
    /\ tokens = << <<"IDENTIFIER", "xwhile">>, <<"WHILE", "while">> >>

\* C10: when Parser.parse returns, the cursor is at the end of the tokens.
C10_ParseConsumesEveryToken ==
    pc = "exec" => pos = Len(tokens)

====
